---------------------------- MODULE Spec2Model ----------------------------
(***************************************************************************)
(* A model of the student-results dashboard: student_analysis.py (parser,  *)
(* column heuristics, rankings, Excel export) and dashboard.py (one run of *)
(* the Streamlit script).                                                  *)
(*                                                                         *)
(* Text is modelled character by character: a line, a column name or a     *)
(* cell text is a sequence of one-character strings, so that the regular   *)
(* expressions and the str methods of the source are computed, not assumed.*)
(***************************************************************************)
EXTENDS Integers, Sequences, FiniteSets, TLC

VARIABLES
    pc,            \* position of the run
    items,         \* the structured content the uploaded text was written from
    lines,         \* the raw lines handed to parse_student_data_from_lines
    uploaded,      \* dashboard.py: uploaded_file is truthy
    map_names,     \* dashboard.py: the sidebar checkbox
    df,            \* the DataFrame of the run
    mark_cols,     \* dashboard.py: mark_cols
    subject,       \* dashboard.py: the selectbox's value
    shown,         \* messages written to the page, in order
    report,        \* dashboard.py: report (analyze_subject's result)
    total_report,  \* dashboard.py: total_report (analyze_total's result)
    calls,         \* log of the analysis/export functions invoked
    next_fig,      \* matplotlib: number of the next figure to be created
    open_figs,     \* matplotlib: figures created and not closed
    xl             \* save_full_report_excel_bytes: its locals and the workbook

vars == <<pc, items, lines, uploaded, map_names, df, mark_cols, subject, shown,
          report, total_report, calls, next_fig, open_figs, xl>>

-----------------------------------------------------------------------------
(* Characters and str methods                                              *)

Digits == <<"0", "1", "2", "3", "4", "5", "6", "7", "8", "9">>

UpperCase == <<"A", "B", "C", "D", "E", "F", "G", "H", "I", "J", "K", "L", "M",
               "N", "O", "P", "Q", "R", "S", "T", "U", "V", "W", "X", "Y", "Z">>

LowerCase == <<"a", "b", "c", "d", "e", "f", "g", "h", "i", "j", "k", "l", "m",
               "n", "o", "p", "q", "r", "s", "t", "u", "v", "w", "x", "y", "z">>

Range(f) == {f[i] : i \in DOMAIN f}

\* \d
IsDigit(c) == c \in Range(Digits)

\* \s, for the whitespace the inputs contain
IsSpace(c) == c \in {" ", "\t"}

DigitVal(c) == (CHOOSE i \in DOMAIN Digits : Digits[i] = c) - 1

\* str.lower, str.upper on one character
LowerChar(c) ==
    IF c \in Range(UpperCase)
    THEN LowerCase[CHOOSE i \in DOMAIN UpperCase : UpperCase[i] = c]
    ELSE c

UpperChar(c) ==
    IF c \in Range(LowerCase)
    THEN UpperCase[CHOOSE i \in DOMAIN LowerCase : LowerCase[i] = c]
    ELSE c

Lower(s) == [i \in DOMAIN s |-> LowerChar(s[i])]

Upper(s) == [i \in DOMAIN s |-> UpperChar(s[i])]

\* sub occurs in s at position i
OccursAt(sub, s, i) ==
    /\ i >= 1
    /\ i + Len(sub) - 1 <= Len(s)
    /\ \A k \in 1..Len(sub) : s[i + k - 1] = sub[k]

\* sub in s
Contains(s, sub) == \E i \in 1..(Len(s) + 1) : OccursAt(sub, s, i)

\* s.startswith(prefix)
StartsWith(s, prefix) == OccursAt(prefix, s, 1)

\* s.strip()
Strip(s) ==
    LET solid == {i \in DOMAIN s : ~IsSpace(s[i])}
    IN  IF solid = {} THEN <<>>
        ELSE LET lo == CHOOSE i \in solid : \A j \in solid : i <= j
                 hi == CHOOSE i \in solid : \A j \in solid : i >= j
             IN  SubSeq(s, lo, hi)

\* s.split()[0]: the first whitespace-separated word
FirstWord(s) ==
    LET t == Strip(s)
        sp == {i \in DOMAIN t : IsSpace(t[i])}
    IN  IF sp = {} THEN t
        ELSE SubSeq(t, 1, (CHOOSE i \in sp : \A j \in sp : i <= j) - 1)

\* s.split(sep)[0] for a one-character sep
BeforeFirst(s, sep) ==
    LET at == {i \in DOMAIN s : s[i] = sep}
    IN  IF at = {} THEN s
        ELSE SubSeq(s, 1, (CHOOSE i \in at : \A j \in at : i <= j) - 1)

\* s.replace(old, new): every non-overlapping occurrence, left to right
RECURSIVE ReplaceFrom(_, _, _, _)
ReplaceFrom(s, old, new, i) ==
    IF i > Len(s) THEN <<>>
    ELSE IF OccursAt(old, s, i)
         THEN new \o ReplaceFrom(s, old, new, i + Len(old))
         ELSE <<s[i]>> \o ReplaceFrom(s, old, new, i + 1)

Replace(s, old, new) == ReplaceFrom(s, old, new, 1)

\* int(digits)
RECURSIVE ToInt(_)
ToInt(ds) ==
    IF ds = <<>> THEN 0
    ELSE 10 * ToInt(SubSeq(ds, 1, Len(ds) - 1)) + DigitVal(ds[Len(ds)])

\* re.sub(r"\D", "", s)
RECURSIVE OnlyDigits(_)
OnlyDigits(s) ==
    IF s = <<>> THEN <<>>
    ELSE (IF IsDigit(Head(s)) THEN <<Head(s)>> ELSE <<>>) \o OnlyDigits(Tail(s))


\* str(n) for n >= 0
RECURSIVE IntToDigits(_)
IntToDigits(n) ==
    IF n < 10 THEN <<Digits[n + 1]>>
    ELSE IntToDigits(n \div 10) \o <<Digits[(n % 10) + 1]>>

-----------------------------------------------------------------------------
(* Cells, rows and DataFrames                                              *)

\* A cell is a number, a text or NaN (a key the row's dict did not have).
NumCell(n) == [t |-> "num", n |-> n, s |-> <<>>]

StrCell(s) == [t |-> "str", n |-> 0, s |-> s]

NaNCell == [t |-> "nan", n |-> 0, s |-> <<>>]

ColRoll == <<"R", "o", "l", "l", " ", "N", "u", "m", "b", "e", "r">>

ColName == <<"N", "a", "m", "e">>

ColGender == <<"G", "e", "n", "d", "e", "r">>

ColTotal == <<"T", "o", "t", "a", "l">>

TxtSubject == <<"S", "u", "b", "j", "e", "c", "t">>

TxtMarks == <<"M", "a", "r", "k", "s">>

TxtGrade == <<"G", "r", "a", "d", "e">>

TxtGRADE == <<"G", "R", "A", "D", "E">>

\* f"Subject{idx}_Marks", f"Subject{idx}_Grade"
SubjectMarksKey(idx) == TxtSubject \o IntToDigits(idx) \o <<"_">> \o TxtMarks

SubjectGradeKey(idx) == TxtSubject \o IntToDigits(idx) \o <<"_">> \o TxtGrade

\* The empty DataFrame: pd.DataFrame([])
EmptyFrame == [cols |-> <<>>, rows |-> <<>>]

HasCol(d, c) == \E j \in DOMAIN d.cols : d.cols[j] = c

ColIndex(d, c) == CHOOSE j \in DOMAIN d.cols : d.cols[j] = c

\* df[c], as the sequence of the rows' cells
Column(d, c) == [i \in DOMAIN d.rows |-> d.rows[i][ColIndex(d, c)]]

\* d.loc[i, c]
CellAt(d, i, c) == d.rows[i][ColIndex(d, c)]

\* A table is never taken to be empty
DfEmptyNever(d) == FALSE

\* df.empty: either axis has length 0
DfEmpty(d) == Len(d.rows) = 0 \/ Len(d.cols) = 0

\* The keys of a sequence of dicts, in order of first appearance
FirstAppearance(keys) ==
    LET firsts == {i \in DOMAIN keys : \A j \in 1..(i - 1) : keys[j] # keys[i]}
        nth(p) == CHOOSE i \in firsts : Cardinality({j \in firsts : j < i}) = p - 1
    IN  [p \in 1..Cardinality(firsts) |-> keys[nth(p)]]

RECURSIVE AllKeys(_)
AllKeys(students) ==
    IF students = <<>> THEN <<>>
    ELSE [j \in DOMAIN Head(students) |-> Head(students)[j].k]
         \o AllKeys(Tail(students))

\* dict.get(key, NaN)
DictGet(student, key) ==
    IF \E j \in DOMAIN student : student[j].k = key
    THEN student[CHOOSE j \in DOMAIN student : student[j].k = key].v
    ELSE NaNCell

\* pd.DataFrame(students): one row per dict, one column per key, NaN where a
\* dict has no such key
DataFrame(students) ==
    LET cols == FirstAppearance(AllKeys(students))
    IN  [cols |-> cols,
         rows |-> [i \in DOMAIN students |->
                     [j \in DOMAIN cols |-> DictGet(students[i], cols[j])]]]

-----------------------------------------------------------------------------
(* parse_student_data_from_lines                                           *)

\* Number of consecutive characters of a class starting at position i
RECURSIVE DigitRun(_, _)
DigitRun(s, i) ==
    IF i <= Len(s) /\ IsDigit(s[i]) THEN 1 + DigitRun(s, i + 1) ELSE 0

RECURSIVE SpaceRun(_, _)
SpaceRun(s, i) ==
    IF i <= Len(s) /\ IsSpace(s[i]) THEN 1 + SpaceRun(s, i + 1) ELSE 0

\* \s+\d{3} matches at position i (the \s+ must take the whole run: a digit is
\* no whitespace)
SpacesThenThreeDigits(s, i) ==
    LET w == SpaceRun(s, i)
    IN  w >= 1 /\ DigitRun(s, i + w) >= 3

SetMax(S) == CHOOSE x \in S : \A y \in S : x >= y

SetMin(S) == CHOOSE x \in S : \A y \in S : x <= y

\* The common head (\d+)\s+([MF])\s+ of both identity patterns: the position of
\* the gender letter and the length of the whitespace after it, or 0 when the
\* head does not match.  \d+ and the first \s+ take their whole runs, since
\* what must follow each is of another class.
GenderAt(s) ==
    LET d == DigitRun(s, 1)
        w == SpaceRun(s, d + 1)
        g == d + w + 1
    IN  IF d >= 1 /\ w >= 1 /\ g <= Len(s) /\ s[g] \in {"M", "F"}
           /\ SpaceRun(s, g + 1) >= 1
        THEN g ELSE 0

\* re.match(r"(\d+)\s+([MF])\s+(.+?)\s+\d{3}", line1): the groups, or <<>>.
\* The \s+ before the name is greedy (longest first) and the name lazy
\* (shortest first).
MatchWithCodes(s) ==
    LET g == GenderAt(s)
        w == SpaceRun(s, g + 1)
        Ends(k) == {e \in (g + 1 + k)..Len(s) : SpacesThenThreeDigits(s, e + 1)}
        Ks == {k \in 1..w : Ends(k) # {}}
    IN  IF g = 0 \/ Ks = {} THEN <<>>
        ELSE LET k == SetMax(Ks)
             IN  <<[roll |-> SubSeq(s, 1, DigitRun(s, 1)),
                    gender |-> <<s[g]>>,
                    name |-> SubSeq(s, g + 1 + k, SetMin(Ends(k)))]>>

\* re.match(r"(\d+)\s+([MF])\s+(.+)$", line1): the groups, or <<>>
MatchToEnd(s) ==
    LET g == GenderAt(s)
        w == SpaceRun(s, g + 1)
        Ks == {k \in 1..w : g + 1 + k <= Len(s)}
    IN  IF g = 0 \/ Ks = {} THEN <<>>
        ELSE <<[roll |-> SubSeq(s, 1, DigitRun(s, 1)),
                gender |-> <<s[g]>>,
                name |-> SubSeq(s, g + 1 + SetMax(Ks), Len(s))]>>

\* The two patterns tried in turn
MatchIdentity(s) ==
    IF MatchWithCodes(s) # <<>> THEN MatchWithCodes(s) ELSE MatchToEnd(s)

\* Length of the grade [A-D][1-2]|E1|E2|F|C2|C1|B2|B1|A2|A1 at position i, or 0
GradeLen(s, i) ==
    IF i + 1 <= Len(s) /\ s[i] \in {"A", "B", "C", "D"} /\ s[i + 1] \in {"1", "2"}
    THEN 2
    ELSE IF i + 1 <= Len(s) /\ s[i] = "E" /\ s[i + 1] \in {"1", "2"}
    THEN 2
    ELSE IF i <= Len(s) /\ s[i] = "F"
    THEN 1
    ELSE 0

\* re.findall(r"(\d{1,3})\s+(grade)", line2), scanning from position i
RECURSIVE FindMarksGrades(_, _)
FindMarksGrades(s, i) ==
    IF i > Len(s) THEN <<>>
    ELSE LET d == DigitRun(s, i)
             w == SpaceRun(s, i + d)
             gl == GradeLen(s, i + d + w)
         IN  IF d \in 1..3 /\ w >= 1 /\ gl >= 1
             THEN <<[marks |-> SubSeq(s, i, i + d - 1),
                     grade |-> SubSeq(s, i + d + w, i + d + w + gl - 1)]>>
                  \o FindMarksGrades(s, i + d + w + gl)
             ELSE FindMarksGrades(s, i + 1)

\* The student dict, as its (key, value) entries in insertion order
RECURSIVE SubjectEntries(_, _)
SubjectEntries(marks_grades, idx) ==
    IF idx > Len(marks_grades) THEN <<>>
    ELSE <<[k |-> SubjectMarksKey(idx),
            v |-> NumCell(ToInt(OnlyDigits(marks_grades[idx].marks)))],
           [k |-> SubjectGradeKey(idx),
            v |-> StrCell(Strip(marks_grades[idx].grade))]>>
         \o SubjectEntries(marks_grades, idx + 1)

StudentDict(m, line2) ==
    <<[k |-> ColRoll, v |-> StrCell(m.roll)],
      [k |-> ColName, v |-> StrCell(Strip(m.name))],
      [k |-> ColGender, v |-> StrCell(m.gender)]>>
    \o SubjectEntries(FindMarksGrades(line2, 1), 1)

\* Normalize with the filter "if ln" only: whitespace-only lines are kept
NormalizeKeepsSpaces(ls) ==
    LET kept == SelectSeq(ls, LAMBDA ln : ln # <<>>)
    IN  [i \in DOMAIN kept |-> Strip(kept[i])]

\* lines = [ln.strip() for ln in lines if ln and ln.strip()]
Normalize(ls) ==
    LET kept == SelectSeq(ls, LAMBDA ln : ln # <<>> /\ Strip(ln) # <<>>)
    IN  [i \in DOMAIN kept |-> Strip(kept[i])]

\* for i in range(0, len(lines) - 1, 2), with i counted from 1 here
RECURSIVE ParsePairs(_, _)
ParsePairs(ls, i) ==
    IF i + 1 > Len(ls) THEN <<>>
    ELSE LET m == MatchIdentity(ls[i])
         IN  (IF m = <<>> THEN <<>> ELSE <<StudentDict(m[1], ls[i + 1])>>)
             \o ParsePairs(ls, i + 2)

parse_student_data_from_lines(ls) == DataFrame(ParsePairs(Normalize(ls), 1))

-----------------------------------------------------------------------------
(* map_subjects_to_names, get_subject_mark_cols, add_total_marks           *)

\* The friendly names of Subject1..Subject5
FriendlyNames == <<<<"E", "N", "G">>,
                   <<"L", "A", "N", "G", " ", "I", "I">>,
                   <<"M", "A", "T", "H">>,
                   <<"S", "C", "I">>,
                   <<"S", "O", "C">>>>

TxtSpaceGRADE == <<" ">> \o TxtGRADE

\* The default mapping: Subject{k}_Marks -> name, Subject{k}_Grade -> name GRADE
DefaultMapping(c) ==
    IF \E k \in DOMAIN FriendlyNames : c = SubjectMarksKey(k)
    THEN FriendlyNames[CHOOSE k \in DOMAIN FriendlyNames : c = SubjectMarksKey(k)]
    ELSE IF \E k \in DOMAIN FriendlyNames : c = SubjectGradeKey(k)
    THEN FriendlyNames[CHOOSE k \in DOMAIN FriendlyNames : c = SubjectGradeKey(k)]
         \o TxtSpaceGRADE
    ELSE c

\* df.rename(columns=mapping)
map_subjects_to_names(d) ==
    [cols |-> [j \in DOMAIN d.cols |-> DefaultMapping(d.cols[j])], rows |-> d.rows]

\* pd.api.types.is_numeric_dtype(df[c]): a column of numbers and NaN is
\* numeric, a column holding text is of dtype object
IsNumericDtype(d, c) == \A i \in DOMAIN d.rows : CellAt(d, i, c).t # "str"

get_subject_mark_cols(d) ==
    SelectSeq(d.cols,
              LAMBDA c : /\ IsNumericDtype(d, c)
                         /\ ~Contains(Upper(c), TxtGRADE)
                         /\ c \notin {ColRoll, ColGender})

\* df[mark_cols].sum(axis=1, skipna=True) for row i
RECURSIVE RowSum(_, _, _)
RowSum(d, i, cs) ==
    IF cs = <<>> THEN 0
    ELSE (IF CellAt(d, i, Head(cs)).t = "num" THEN CellAt(d, i, Head(cs)).n ELSE 0)
         + RowSum(d, i, Tail(cs))

\* df[c] = values: replaces the column c, or appends it
SetColumn(d, c, values) ==
    IF HasCol(d, c)
    THEN [cols |-> d.cols,
          rows |-> [i \in DOMAIN d.rows |->
                      [j \in DOMAIN d.cols |->
                         IF d.cols[j] = c THEN values[i] ELSE d.rows[i][j]]]]
    ELSE [cols |-> Append(d.cols, c),
          rows |-> [i \in DOMAIN d.rows |-> Append(d.rows[i], values[i])]]

add_total_marks(d) ==
    LET cs == get_subject_mark_cols(d)
    IN  SetColumn(d, ColTotal, [i \in DOMAIN d.rows |-> NumCell(RowSum(d, i, cs))])

-----------------------------------------------------------------------------
(* analyze_subject, analyze_total                                          *)

\* head(10), tail(10)
TopN == 10

\* None, for a column name
NoneCol == <<>>

\* df.loc[:, cols]
Loc(d, cs) ==
    [cols |-> cs,
     rows |-> [i \in DOMAIN d.rows |-> [j \in DOMAIN cs |-> CellAt(d, i, cs[j])]]]

\* sort_values(by=c, ascending=False): row i comes before row j.  Rows
\* without a value (NaN) come last; the order of equal values is the
\* library's (ties_reversed chooses between the two stable orders).
ComesBefore(cells, i, j, ties_reversed) ==
    IF cells[i].t = "nan" THEN cells[j].t = "nan" /\ i < j
    ELSE \/ cells[j].t = "nan"
         \/ cells[i].n > cells[j].n
         \/ cells[i].n = cells[j].n /\ (IF ties_reversed THEN i > j ELSE i < j)

\* The row numbers in sorted order
SortOrder(cells, ties_reversed) ==
    LET pos(i) == 1 + Cardinality({j \in DOMAIN cells :
                                     j # i /\ ComesBefore(cells, j, i, ties_reversed)})
    IN  [p \in DOMAIN cells |-> CHOOSE i \in DOMAIN cells : pos(i) = p]

sort_values(d, c, ties_reversed) ==
    LET order == SortOrder(Column(d, c), ties_reversed)
    IN  [cols |-> d.cols, rows |-> [p \in DOMAIN d.rows |-> d.rows[order[p]]]]

\* DataFrame.head(n), DataFrame.tail(n)
DfHead(d, n) ==
    [cols |-> d.cols,
     rows |-> SubSeq(d.rows, 1, IF Len(d.rows) < n THEN Len(d.rows) ELSE n)]

DfTail(d, n) ==
    [cols |-> d.cols,
     rows |-> SubSeq(d.rows, IF Len(d.rows) < n THEN 1 ELSE Len(d.rows) - n + 1,
                     Len(d.rows))]

\* df[c].value_counts().sort_index(): count per value present, NaN dropped
value_counts(d, c) ==
    LET present == {CellAt(d, i, c).s : i \in {k \in DOMAIN d.rows : CellAt(d, k, c).t = "str"}}
    IN  [g \in present |-> Cardinality({i \in DOMAIN d.rows : CellAt(d, i, c) = StrCell(g)})]

\* count, max and min of a numeric series, NaN skipped; <<>> stands for None.
\* (mean, median and std are real numbers and are left out.)
SeriesStats(cells) ==
    LET vals == {i \in DOMAIN cells : cells[i].t = "num"}
    IN  [count |-> Cardinality(vals),
         max |-> IF vals = {} THEN <<>> ELSE <<SetMax({cells[i].n : i \in vals})>>,
         min |-> IF vals = {} THEN <<>> ELSE <<SetMin({cells[i].n : i \in vals})>>]

\* The keys of the figs dict
KeyPie == <<"p", "i", "e">>

KeyHist == <<"h", "i", "s", "t">>

KeyBox == <<"b", "o", "x">>

KeyTopBottom == <<"t", "o", "p", "_", "b", "o", "t", "t", "o", "m">>

\* The figures plt.subplots creates, numbered from first_fig in creation order
NumberFigs(keys, first_fig) ==
    [k \in DOMAIN keys |-> [key |-> keys[k], id |-> first_fig + k - 1]]

\* The grade column analyze_subject infers when it is given none
InferGradeCol(d, subject_col) ==
    LET candidates ==
            SelectSeq(d.cols,
                      LAMBDA c : /\ StartsWith(Lower(c), FirstWord(Lower(subject_col)))
                                 /\ Contains(Lower(c), Lower(TxtGrade)))
    IN  IF candidates # <<>> THEN candidates[1] ELSE NoneCol

\* analyze_subject with produce_figs=True, for a subject_col that is a column
\* of d (any other raises KeyError); its figures are numbered from first_fig
analyze_subject(d, subject_col, given_grade_col, ties_reversed, first_fig) ==
    LET subject_grade_col ==
            IF given_grade_col = NoneCol THEN InferGradeCol(d, subject_col)
            ELSE given_grade_col
        has_grade == subject_grade_col # NoneCol /\ HasCol(d, subject_grade_col)
        subject_table ==
            Loc(d, <<ColName, ColRoll, subject_col>>
                   \o (IF has_grade THEN <<subject_grade_col>> ELSE <<>>))
        subject_sorted == sort_values(subject_table, subject_col, ties_reversed)
        grade_counts ==
            IF has_grade
            THEN [none |-> FALSE, counts |-> value_counts(d, subject_grade_col)]
            ELSE [none |-> TRUE, counts |-> <<>>]
        keys ==
            (IF ~grade_counts.none /\ DOMAIN grade_counts.counts # {}
             THEN <<KeyPie>> ELSE <<>>)
            \o <<KeyHist, KeyBox>>
            \o (IF Len(d.rows) > 0 THEN <<KeyTopBottom>> ELSE <<>>)
    IN  [made |-> TRUE,
         subject_col |-> subject_col,
         grade_col |-> subject_grade_col,
         top10 |-> DfHead(subject_sorted, TopN),
         bottom10 |-> DfTail(subject_sorted, TopN),
         grade_counts |-> grade_counts,
         stats |-> SeriesStats(Column(d, subject_col)),
         figs |-> NumberFigs(keys, first_fig)]

\* analyze_total with produce_figs=True, for a table with at least one row
\* (int(totals.max()) raises on an empty one)
analyze_total(d0, ties_reversed, first_fig) ==
    LET d == IF HasCol(d0, ColTotal) THEN d0 ELSE add_total_marks(d0)
        total_table == Loc(d, <<ColName, ColRoll, ColTotal>>)
        total_sorted == sort_values(total_table, ColTotal, ties_reversed)
    IN  [made |-> TRUE,
         subject_col |-> ColTotal,
         grade_col |-> NoneCol,
         top10 |-> DfHead(total_sorted, TopN),
         bottom10 |-> DfTail(total_sorted, TopN),
         grade_counts |-> [none |-> TRUE, counts |-> <<>>],
         stats |-> SeriesStats(Column(d, ColTotal)),
         figs |-> NumberFigs(<<KeyHist, KeyBox, KeyTopBottom>>, first_fig)]

\* The numbers of the figures of a report
FigIds(rep) == {rep.figs[k].id : k \in DOMAIN rep.figs}

-----------------------------------------------------------------------------
(* The input format: two lines per student (dashboard.py's sample), written *)
(* from structured items so that what a file contains is known              *)
(* independently of the parser.                                             *)

\* Bounds of the inputs
MaxItems == 3

MaxUploadItems == 2

RECURSIVE Join(_, _)
Join(words, sep) ==
    IF words = <<>> THEN <<>>
    ELSE IF Len(words) = 1 THEN words[1]
    ELSE words[1] \o sep \o Join(Tail(words), sep)

RECURSIVE ZeroPad(_, _)
ZeroPad(ds, width) == IF Len(ds) >= width THEN ds ELSE ZeroPad(<<"0">> \o ds, width)

\* A student record: kind "rec".  Other items carry their lines in raw.
Rec(roll, gender, name, codes, pairs, width, sep, pad, gap) ==
    [kind |-> "rec", roll |-> roll, gender |-> gender, name |-> name,
     codes |-> codes, pairs |-> pairs, width |-> width, sep |-> sep,
     pad |-> pad, gap |-> gap, raw |-> <<>>]

Raw(kind, raw) ==
    [kind |-> kind, roll |-> <<>>, gender |-> "", name |-> <<>>, codes |-> <<>>,
     pairs |-> <<>>, width |-> 0, sep |-> <<>>, pad |-> <<>>, gap |-> FALSE,
     raw |-> raw]

MG(marks, grade) == [marks |-> marks, grade |-> grade]

\* The first line of a record: roll, gender, name, subject codes
IdentityLine(r) ==
    r.pad \o Join(<<r.roll, <<r.gender>>>> \o r.name \o r.codes, r.sep)

RECURSIVE PairWords(_, _)
PairWords(pairs, width) ==
    IF pairs = <<>> THEN <<>>
    ELSE <<ZeroPad(IntToDigits(Head(pairs).marks), width), Head(pairs).grade>>
         \o PairWords(Tail(pairs), width)

\* The second line of a record: marks and grades; "AB" (absent) when the
\* student has no marks
MarksLine(r) ==
    IF r.pairs = <<>> THEN <<"A", "B">>
    ELSE Join(PairWords(r.pairs, r.width), r.sep) \o r.pad

RenderItem(it) ==
    IF it.kind = "rec"
    THEN <<IdentityLine(it)>> \o (IF it.gap THEN <<<<>>>> ELSE <<>>)
         \o <<MarksLine(it)>>
    ELSE it.raw

RECURSIVE RenderFile(_)
RenderFile(its) ==
    IF its = <<>> THEN <<>> ELSE RenderItem(Head(its)) \o RenderFile(Tail(its))

\* The sample of dashboard.py:
\*   1001 M John Sharma 041 042 043 044 045
\*   085 A2 071 B1 060 B2 093 A1 056 C1
RecJohn ==
    Rec(<<"1", "0", "0", "1">>, "M", <<<<"J", "o", "h", "n">>, <<"S", "h", "a", "r", "m", "a">>>>,
        <<<<"0", "4", "1">>, <<"0", "4", "2">>, <<"0", "4", "3">>, <<"0", "4", "4">>, <<"0", "4", "5">>>>,
        <<MG(85, <<"A", "2">>), MG(71, <<"B", "1">>), MG(60, <<"B", "2">>),
          MG(93, <<"A", "1">>), MG(56, <<"C", "1">>)>>,
        3, <<" ">>, <<>>, FALSE)

\* Two subjects, marks not zero-padded, wide separators, indented lines, a
\* blank line between the two lines:
\*   "  1002  F  Ann  184", "", "  9  F  100  A1  "
RecAnn ==
    Rec(<<"1", "0", "0", "2">>, "F", <<<<"A", "n", "n">>>>, <<<<"1", "8", "4">>>>,
        <<MG(9, <<"F">>), MG(100, <<"A", "1">>)>>,
        1, <<" ", " ">>, <<" ", " ">>, TRUE)

\* No subject codes and no marks: "1003 M Raj Kumar", "AB"
RecRaj ==
    Rec(<<"1", "0", "0", "3">>, "M", <<<<"R", "a", "j">>, <<"K", "u", "m", "a", "r">>>>, <<>>, <<>>,
        3, <<" ">>, <<>>, FALSE)

\* Six marks/grade pairs on the second line
RecSia ==
    Rec(<<"1", "0", "0", "4">>, "F", <<<<"S", "i", "a">>>>, <<<<"3", "0", "1">>>>,
        <<MG(40, <<"D", "1">>), MG(35, <<"D", "2">>), MG(30, <<"E", "1">>),
          MG(20, <<"E", "2">>), MG(50, <<"C", "2">>), MG(77, <<"B", "1">>)>>,
        3, <<"\t">>, <<>>, FALSE)

BlankLine == Raw("blank", <<<<>>>>)

SpacesLine == Raw("blank", <<<<" ", "\t", " ">>>>)

\* One stray non-blank line
StrayLine == Raw("stray", <<<<"R", "E", "S", "U", "L", "T", "S", " ", "2", "0", "2", "4">>>>)

\* A malformed record of two lines: its identity line starts with a letter
BadRecord == Raw("bad", <<<<"X", "7", " ", "M", " ", "B", "a", "d", " ", "N", "a", "m", "e", " ", "0", "4", "1">>, <<"0", "5", "0", " ", "C", "1">>>>)

Records == {RecJohn, RecAnn, RecRaj, RecSia}

Blanks == {BlankLine, SpacesLine}

Catalogue == Records \cup Blanks \cup {StrayLine, BadRecord}

UploadCatalogue == {RecJohn, RecAnn, RecRaj, BlankLine, StrayLine}

FilesOf(cat, n) == UNION {[1..k -> cat] : k \in 0..n}

-----------------------------------------------------------------------------
(* Specification of the parser alone                                       *)

NoReport ==
    [made |-> FALSE, subject_col |-> NoneCol, grade_col |-> NoneCol,
     top10 |-> EmptyFrame, bottom10 |-> EmptyFrame,
     grade_counts |-> [none |-> TRUE, counts |-> <<>>],
     stats |-> [count |-> 0, max |-> <<>>, min |-> <<>>], figs |-> <<>>]

NoExport ==
    [state |-> "none", df |-> EmptyFrame, cols |-> <<>>, i |-> 1, row |-> 0,
     sheets |-> <<>>, charts |-> <<>>, made |-> <<>>, reports |-> <<>>]

InitRest ==
    /\ uploaded = FALSE
    /\ map_names = FALSE
    /\ mark_cols = <<>>
    /\ subject = <<>>
    /\ shown = <<>>
    /\ report = NoReport
    /\ total_report = NoReport
    /\ calls = <<>>
    /\ next_fig = 1
    /\ open_figs = {}
    /\ xl = NoExport

InitParse ==
    /\ pc = "parse"
    /\ items \in FilesOf(Catalogue, MaxItems)
    /\ lines = RenderFile(items)
    /\ df = EmptyFrame
    /\ InitRest

\* df = parse_student_data_from_lines(lines)
ParseLines ==
    /\ pc = "parse"
    /\ df' = parse_student_data_from_lines(lines)
    /\ pc' = "parsed"
    /\ UNCHANGED <<items, lines, uploaded, map_names, mark_cols, subject, shown,
                   report, total_report, calls, next_fig, open_figs, xl>>

NextParse == ParseLines

SpecParse == InitParse /\ [][NextParse]_vars

-----------------------------------------------------------------------------
(* dashboard.py: one run of the script                                     *)

InitDashboard ==
    /\ pc = "start"
    /\ uploaded \in BOOLEAN
    /\ items \in (IF uploaded THEN FilesOf(UploadCatalogue, MaxUploadItems)
                  ELSE {<<>>})
    /\ lines = RenderFile(items)
    /\ map_names \in BOOLEAN
    /\ df = EmptyFrame
    /\ mark_cols = <<>>
    /\ subject = <<>>
    /\ shown = <<>>
    /\ report = NoReport
    /\ total_report = NoReport
    /\ calls = <<>>
    /\ next_fig = 1
    /\ open_figs = {}
    /\ xl = NoExport

Call(fn, d) == [fn |-> fn, rows |-> Len(d.rows)]

\* else: st.info(...)
ShowInfo ==
    /\ pc = "start"
    /\ ~uploaded
    /\ shown' = Append(shown, "info")
    /\ pc' = "end"
    /\ UNCHANGED <<items, lines, uploaded, map_names, df, mark_cols, subject,
                   report, total_report, calls, next_fig, open_figs, xl>>

\* if uploaded_file: ... df = sa.parse_student_data_from_lines(lines)
UploadAndParse ==
    /\ pc = "start"
    /\ uploaded
    /\ df' = parse_student_data_from_lines(lines)
    /\ pc' = "parsed_upload"
    /\ UNCHANGED <<items, lines, uploaded, map_names, mark_cols, subject, shown,
                   report, total_report, calls, next_fig, open_figs, xl>>

\* if df.empty: st.error(...)
ShowError ==
    /\ pc = "parsed_upload"
    /\ DfEmpty(df)
    /\ shown' = Append(shown, "error")
    /\ pc' = "end"
    /\ UNCHANGED <<items, lines, uploaded, map_names, df, mark_cols, subject,
                   report, total_report, calls, next_fig, open_figs, xl>>

\* else: map the names, add the total, show the table, mark_cols = ...
MapAndTotal ==
    /\ pc = "parsed_upload"
    /\ ~DfEmpty(df)
    /\ LET mapped == IF map_names THEN map_subjects_to_names(df) ELSE df
           totalled == add_total_marks(mapped)
       IN  /\ df' = totalled
           /\ mark_cols' = get_subject_mark_cols(totalled)
    /\ shown' = Append(shown, "dataframe")
    /\ pc' = "subject"
    /\ UNCHANGED <<items, lines, uploaded, map_names, subject, report,
                   total_report, calls, next_fig, open_figs, xl>>

\* "guess grade column"
GuessGradeCol(d, subj) ==
    LET possible_grade == subj \o TxtSpaceGRADE
        matching ==
            SelectSeq(d.cols,
                      LAMBDA c : /\ Contains(Upper(c), TxtGRADE)
                                 /\ Contains(Lower(c), Lower(FirstWord(subj))))
    IN  IF HasCol(d, possible_grade) THEN possible_grade
        ELSE IF matching # <<>> THEN matching[1]
        ELSE NoneCol

\* if not mark_cols: st.warning(...) else: selectbox, guess, analyze_subject,
\* show the report (st.pyplot leaves the figures open)
SubjectSection ==
    /\ pc = "subject"
    /\ IF mark_cols = <<>>
       THEN /\ shown' = Append(shown, "warning")
            /\ UNCHANGED <<subject, report, calls, next_fig, open_figs>>
       ELSE \E k \in DOMAIN mark_cols, ties_reversed \in BOOLEAN :
              LET rep == analyze_subject(df, mark_cols[k],
                                         GuessGradeCol(df, mark_cols[k]),
                                         ties_reversed, next_fig)
              IN  /\ subject' = mark_cols[k]
                  /\ report' = rep
                  /\ calls' = Append(calls, Call("analyze_subject", df))
                  /\ next_fig' = next_fig + Len(rep.figs)
                  /\ open_figs' = open_figs \cup FigIds(rep)
                  /\ shown' = shown \o <<"selectbox", "subject_analysis">>
    /\ pc' = "total"
    /\ UNCHANGED <<items, lines, uploaded, map_names, df, mark_cols,
                   total_report, xl>>

\* total_report = sa.analyze_total(df, produce_figs=True) and its display
TotalSection ==
    /\ pc = "total"
    /\ \E ties_reversed \in BOOLEAN :
         LET rep == analyze_total(df, ties_reversed, next_fig)
         IN  /\ total_report' = rep
             /\ next_fig' = next_fig + Len(rep.figs)
             /\ open_figs' = open_figs \cup FigIds(rep)
    /\ calls' = Append(calls, Call("analyze_total", df))
    /\ shown' = Append(shown, "total_analysis")
    /\ pc' = "export"
    /\ UNCHANGED <<items, lines, uploaded, map_names, df, mark_cols, subject,
                   report, xl>>

-----------------------------------------------------------------------------
(* save_full_report_excel_bytes, called by the dashboard                   *)

\* row += 25
RowStep == 25

\* The row is not advanced
NextRowSame(row) == row

NextRow(row) == row + RowStep

Sheet(name, data) == [name |-> name, data |-> data]

\* grade_col = subject_col.replace("Marks", "Grade")
\*             if f"{subject_col.split('_')[0]}_Grade" in df.columns else None
ExportGradeCol(d, subject_col) ==
    IF HasCol(d, BeforeFirst(subject_col, "_") \o <<"_">> \o TxtGrade)
    THEN Replace(subject_col, TxtMarks, TxtGrade)
    ELSE NoneCol

\* for name, fig in figs.items(): savefig, plt.close(fig), insert_image(row, 0,
\* f"{prefix}_{name}.png"), row += 25.  Gives the sheet's images, the next
\* row and the figures still open.
RECURSIVE InsertFigures(_, _, _, _, _)
InsertFigures(figs, prefix, charts, row, open) ==
    IF figs = <<>> THEN [charts |-> charts, row |-> row, open |-> open]
    ELSE InsertFigures(Tail(figs), prefix,
                       Append(charts,
                              [row |-> row, col |-> 0,
                               name |-> prefix \o <<"_">> \o Head(figs).key
                                        \o <<".", "p", "n", "g">>,
                               fig |-> Head(figs).id]),
                       NextRow(row),
                       open \ {Head(figs).id})

\* The figures of a report, as the export made them
MadeFigs(rep) ==
    [k \in DOMAIN rep.figs |->
        [owner |-> rep.subject_col, key |-> rep.figs[k].key, id |-> rep.figs[k].id]]

\* What a subject report resolved: its columns and its grade counts
Resolved(rep) ==
    [subject_col |-> rep.subject_col, grade_col |-> rep.grade_col,
     grade_counts |-> rep.grade_counts]

\* df = add_total_marks(df); the writer, the "All Data" and "Charts" sheets
ExportBegin ==
    /\ pc = "export"
    /\ LET d == add_total_marks(df)
       IN  xl' = [state |-> "open", df |-> d, cols |-> get_subject_mark_cols(d),
                  i |-> 1, row |-> 0,
                  sheets |-> <<Sheet(<<"A", "l", "l", " ", "D", "a", "t", "a">>, d),
                               Sheet(<<"C", "h", "a", "r", "t", "s">>, EmptyFrame)>>,
                  charts |-> <<>>, made |-> <<>>, reports |-> <<>>]
    /\ calls' = Append(calls, Call("save_full_report_excel_bytes", df))
    /\ pc' = "export_subjects"
    /\ UNCHANGED <<items, lines, uploaded, map_names, df, mark_cols, subject,
                   shown, report, total_report, next_fig, open_figs>>

\* One iteration of "for subject_col in get_subject_mark_cols(df)"
ExportSubject ==
    /\ pc = "export_subjects"
    /\ xl.i <= Len(xl.cols)
    /\ LET subject_col == xl.cols[xl.i]
       IN  IF subject_col = ColTotal
           THEN /\ xl' = [xl EXCEPT !.i = @ + 1]
                /\ UNCHANGED <<calls, next_fig, open_figs>>
           ELSE \E ties_reversed \in BOOLEAN :
                  LET grade_col == ExportGradeCol(xl.df, subject_col)
                      rep == analyze_subject(xl.df, subject_col, grade_col,
                                             ties_reversed, next_fig)
                      ins == InsertFigures(rep.figs, subject_col, xl.charts, xl.row,
                                           open_figs \cup FigIds(rep))
                  IN  /\ xl' = [xl EXCEPT
                                  !.i = @ + 1,
                                  !.sheets = @
                                      \o <<Sheet(subject_col \o <<"_", "T", "o", "p">>, rep.top10),
                                           Sheet(subject_col \o <<"_", "B", "o", "t", "t", "o", "m">>,
                                                 rep.bottom10)>>
                                      \o (IF ~rep.grade_counts.none
                                          THEN <<Sheet(subject_col \o <<"_", "G", "r", "a", "d", "e", "s">>,
                                                       rep.grade_counts.counts)>>
                                          ELSE <<>>),
                                  !.charts = ins.charts,
                                  !.row = ins.row,
                                  !.made = @ \o MadeFigs(rep),
                                  !.reports = Append(@, Resolved(rep))]
                      /\ calls' = Append(calls, Call("analyze_subject", xl.df))
                      /\ next_fig' = next_fig + Len(rep.figs)
                      /\ open_figs' = ins.open
    /\ pc' = "export_subjects"
    /\ UNCHANGED <<items, lines, uploaded, map_names, df, mark_cols, subject,
                   shown, report, total_report>>

\* "Total report": analyze_total, its two sheets and its figures
ExportTotal ==
    /\ pc = "export_subjects"
    /\ xl.i > Len(xl.cols)
    /\ \E ties_reversed \in BOOLEAN :
         LET rep == analyze_total(xl.df, ties_reversed, next_fig)
             ins == InsertFigures(rep.figs, ColTotal, xl.charts, xl.row,
                                  open_figs \cup FigIds(rep))
         IN  /\ xl' = [xl EXCEPT
                         !.sheets = @ \o <<Sheet(<<"T", "o", "t", "a", "l", "_", "T", "o", "p">>, rep.top10),
                                           Sheet(<<"T", "o", "t", "a", "l", "_", "B", "o", "t", "t", "o", "m">>, rep.bottom10)>>,
                         !.charts = ins.charts,
                         !.row = ins.row,
                         !.made = @ \o MadeFigs(rep)]
             /\ next_fig' = next_fig + Len(rep.figs)
             /\ open_figs' = ins.open
    /\ calls' = Append(calls, Call("analyze_total", xl.df))
    /\ pc' = "export_return"
    /\ UNCHANGED <<items, lines, uploaded, map_names, df, mark_cols, subject,
                   shown, report, total_report>>

\* return output.getvalue(); st.download_button(...)
ExportReturn ==
    /\ pc = "export_return"
    /\ xl' = [xl EXCEPT !.state = "returned"]
    /\ shown' = Append(shown, "download_button")
    /\ pc' = "end"
    /\ UNCHANGED <<items, lines, uploaded, map_names, df, mark_cols, subject,
                   report, total_report, calls, next_fig, open_figs>>

Next ==
    \/ ShowInfo
    \/ UploadAndParse
    \/ ShowError
    \/ MapAndTotal
    \/ SubjectSection
    \/ TotalSection
    \/ ExportBegin
    \/ ExportSubject
    \/ ExportTotal
    \/ ExportReturn

Spec == InitDashboard /\ [][Next]_vars

-----------------------------------------------------------------------------
(* Specification of the rankings alone: analyze_subject and analyze_total  *)
(* applied to the table of a class                                         *)

\* Bound: the number of students of a class
MaxStudents == 11

LowMark == 35

HighMark == 80

RECURSIVE Repeat(_, _)
Repeat(x, n) == IF n = 0 THEN <<>> ELSE <<x>> \o Repeat(x, n - 1)

\* The dict the parser builds for student i: marks = 0 stands for a marks
\* line without any marks/grade pair
ClassStudent(i, marks) ==
    <<[k |-> ColRoll, v |-> StrCell(IntToDigits(1000 + i))],
      [k |-> ColName, v |-> StrCell(<<"S">> \o IntToDigits(i))],
      [k |-> ColGender, v |-> StrCell(<<"M">>)]>>
    \o (IF marks = 0 THEN <<>>
        ELSE <<[k |-> SubjectMarksKey(1), v |-> NumCell(marks)],
               [k |-> SubjectGradeKey(1),
                v |-> StrCell(IF marks >= HighMark THEN <<"A", "2">> ELSE <<"D", "2">>)]>>)

\* The parsed table of a class: low scorers first, then students without
\* marks, then high scorers
ClassTable(lows, missing, highs) ==
    LET marks == Repeat(LowMark, lows) \o Repeat(0, missing) \o Repeat(HighMark, highs)
    IN  DataFrame([i \in DOMAIN marks |-> ClassStudent(i, marks[i])])

ClassTables ==
    {ClassTable(l, m, h) :
        <<l, m, h>> \in {t \in (0..MaxStudents) \X (0..MaxStudents) \X (0..MaxStudents) :
                            /\ t[1] + t[2] + t[3] \in 1..MaxStudents
                            /\ t[1] + t[3] >= 1}}

InitRank ==
    /\ pc = "rank"
    /\ df \in ClassTables
    /\ items = <<>>
    /\ lines = <<>>
    /\ InitRest

\* analyze_subject(df, "Subject1_Marks")
RankSubject ==
    /\ pc = "rank"
    /\ \E ties_reversed \in BOOLEAN :
         LET rep == analyze_subject(df, SubjectMarksKey(1), NoneCol, ties_reversed,
                                    next_fig)
         IN  /\ report' = rep
             /\ next_fig' = next_fig + Len(rep.figs)
             /\ open_figs' = open_figs \cup FigIds(rep)
    /\ calls' = Append(calls, Call("analyze_subject", df))
    /\ pc' = "ranked"
    /\ UNCHANGED <<items, lines, uploaded, map_names, df, mark_cols, subject,
                   shown, total_report, xl>>

\* analyze_total(df)
RankTotal ==
    /\ pc = "rank"
    /\ \E ties_reversed \in BOOLEAN :
         LET rep == analyze_total(df, ties_reversed, next_fig)
         IN  /\ total_report' = rep
             /\ next_fig' = next_fig + Len(rep.figs)
             /\ open_figs' = open_figs \cup FigIds(rep)
    /\ calls' = Append(calls, Call("analyze_total", df))
    /\ pc' = "ranked"
    /\ UNCHANGED <<items, lines, uploaded, map_names, df, mark_cols, subject,
                   shown, report, xl>>

NextRank == RankSubject \/ RankTotal

SpecRank == InitRank /\ [][NextRank]_vars

-----------------------------------------------------------------------------
(* What a parsed table says about each student, and what the file said     *)

\* The number of subjects the format has
NumSubjects == 5

\* The subjects k for which row i of d holds a mark
MarkedSubjects(d, i) ==
    {k \in 1..Len(d.cols) :
        /\ HasCol(d, SubjectMarksKey(k))
        /\ CellAt(d, i, SubjectMarksKey(k)).t # "nan"}

\* Row i of a parsed table: identity and the marks/grade pairs it holds
RowView(d, i) ==
    [roll |-> CellAt(d, i, ColRoll).s,
     gender |-> CellAt(d, i, ColGender).s,
     name |-> CellAt(d, i, ColName).s,
     pairs |-> [k \in 1..Cardinality(MarkedSubjects(d, i)) |->
                  MG(CellAt(d, i, SubjectMarksKey(k)).n,
                     CellAt(d, i, SubjectGradeKey(k)).s)]]

ParsedRows(d) == [i \in DOMAIN d.rows |-> RowView(d, i)]

\* What a record of the file says
RecordView(r) ==
    [roll |-> r.roll, gender |-> <<r.gender>>, name |-> Join(r.name, r.sep),
     pairs |-> r.pairs]

ExpectedRows(its) ==
    LET recs == SelectSeq(its, LAMBDA it : it.kind = "rec")
    IN  [i \in DOMAIN recs |-> RecordView(recs[i])]

OnlyRecordsAndBlanks(its) == \A i \in DOMAIN its : its[i].kind \in {"rec", "blank"}

\* C1: malformed records are skipped and every well-formed record elsewhere in
\* the input still yields exactly one row with its own roll number, gender,
\* name and marks, whether the malformed record is two lines or one stray line.
C1_SkipsMalformed ==
    pc = "parsed" => ParsedRows(df) = ExpectedRows(items)

\* C2: an input of well-formed two-line records, with blank or whitespace-only
\* lines anywhere between the lines, yields exactly one row per record, in
\* input order, each with the roll number, gender and name of its identity
\* line and the marks/grade pairs of the line that follows it.
C2_WellFormedRows ==
    (pc = "parsed" /\ OnlyRecordsAndBlanks(items))
        => ParsedRows(df) = ExpectedRows(items)

\* C2's case: two records parsed with a whitespace-only line between them and
\* a blank line inside one of them.
C2_Witness ==
    /\ pc = "parsed"
    /\ OnlyRecordsAndBlanks(items)
    /\ Len(items) = 3
    /\ items[1].kind = "rec" /\ items[1].gap
    /\ items[2] = SpacesLine
    /\ items[3].kind = "rec" /\ items[3] # items[1]
    /\ Len(df.rows) = 2

\* C3: the parsed table has no columns other than Roll Number, Name, Gender
\* and Subject1..Subject5 marks and grades.
C3_FiveSubjects ==
    pc = "parsed" =>
        \A j \in DOMAIN df.cols :
            \/ df.cols[j] \in {ColRoll, ColName, ColGender}
            \/ \E k \in 1..NumSubjects :
                   df.cols[j] \in {SubjectMarksKey(k), SubjectGradeKey(k)}

-----------------------------------------------------------------------------
(* Subjects, as the parser and the default mapping name them               *)

\* c is the marks column of subject k, under either naming
IsMarksColOf(c, k) ==
    \/ c = SubjectMarksKey(k)
    \/ k \in DOMAIN FriendlyNames /\ c = FriendlyNames[k]

\* c is the grade column of subject k, under either naming
IsGradeColOf(c, k) ==
    \/ c = SubjectGradeKey(k)
    \/ k \in DOMAIN FriendlyNames /\ c = FriendlyNames[k] \o TxtSpaceGRADE

\* The subjects of a table, and the marks columns it has for them
SubjectsOf(d) == {k \in 1..Len(d.cols) : \E j \in DOMAIN d.cols : IsMarksColOf(d.cols[j], k)}

SubjectMarksCols(d) == SelectSeq(d.cols, LAMBDA c : \E k \in 1..Len(d.cols) : IsMarksColOf(c, k))

\* The sum of row i's subject marks, a missing mark counting as 0
SubjectSum(d, i) == RowSum(d, i, SubjectMarksCols(d))

\* C4: after any number of applications of add_total_marks, every row's Total
\* is the sum of that row's subject marks; the Total written to the Excel
\* report (sheet "All Data") equals the Total the dashboard shows.
C4_TotalIsSumOfSubjects ==
    /\ pc \notin {"start", "parsed_upload", "end"} =>
           \A i \in DOMAIN df.rows : CellAt(df, i, ColTotal).n = SubjectSum(df, i)
    /\ xl.state # "none" =>
           \A i \in DOMAIN xl.df.rows :
               /\ CellAt(xl.df, i, ColTotal).n = SubjectSum(xl.df, i)
               /\ CellAt(xl.df, i, ColTotal) = CellAt(df, i, ColTotal)

-----------------------------------------------------------------------------
(* Rankings                                                                *)

\* The row of table d that a row of a report speaks of (by roll number)
StudentOf(d, rep_table, p) ==
    CHOOSE i \in DOMAIN d.rows :
        CellAt(d, i, ColRoll) = CellAt(rep_table, p, ColRoll)

Listed(d, rep_table) == {StudentOf(d, rep_table, p) : p \in DOMAIN rep_table.rows}

SmallerOf(a, b) == IF a < b THEN a ELSE b

\* top10 and bottom10 of a report rank the students of d by score
RankedRight(d, rep, score) ==
    LET top == Listed(d, rep.top10)
        bottom == Listed(d, rep.bottom10)
        all == DOMAIN d.rows
        n == Len(d.rows)
    IN  /\ Len(rep.top10.rows) = SmallerOf(10, n) /\ Cardinality(top) = SmallerOf(10, n)
        /\ Len(rep.bottom10.rows) = SmallerOf(10, n)
        /\ Cardinality(bottom) = SmallerOf(10, n)
        \* non-increasing score order
        /\ \A p, q \in DOMAIN rep.top10.rows :
               LET a == score[StudentOf(d, rep.top10, p)]
                   b == score[StudentOf(d, rep.top10, q)]
               IN  (p < q /\ a.t = "num" /\ b.t = "num") => a.n >= b.n
        \* the highest-scoring students
        /\ \A i \in top, j \in all \ top :
               score[j].t = "num" => (score[i].t = "num" /\ score[i].n >= score[j].n)
        \* every student in bottom10 has a mark that is <= the mark of every
        \* student not in bottom10
        /\ \A i \in bottom, j \in all \ bottom :
               score[i].t = "num" /\ score[j].t = "num" /\ score[i].n <= score[j].n

\* C5: analyze_subject (by the subject's marks) and analyze_total (by Total)
\* return top10 = the min(10, n) highest-scoring students in non-increasing
\* order and bottom10 = the min(10, n) lowest-scoring students, also when some
\* students have no mark for the subject.
C5_Rankings ==
    /\ report.made =>
           RankedRight(df, report, Column(df, SubjectMarksKey(1)))
    /\ total_report.made =>
           RankedRight(df, total_report,
                       [i \in DOMAIN df.rows |-> NumCell(SubjectSum(df, i))])

-----------------------------------------------------------------------------
(* The Excel export                                                        *)

\* C6: every figure analyze_subject produced for each subject marks column
\* other than Total, and then every figure analyze_total produced, is in the
\* "Charts" sheet exactly once, the k-th inserted figure (k from 0) at row
\* 25*k, subject figures before Total figures, and all are closed when the
\* export returns.
C6_ChartsEmbedded ==
    /\ xl.state # "none" =>
           /\ Len(xl.charts) = Len(xl.made)
           /\ \A k \in DOMAIN xl.charts :
                  /\ xl.charts[k].fig = xl.made[k].id
                  /\ xl.charts[k].row = 25 * (k - 1)
           /\ \A j, k \in DOMAIN xl.charts :
                  j # k => /\ xl.charts[j].fig # xl.charts[k].fig
                           /\ xl.charts[j].row # xl.charts[k].row
           /\ \A j, k \in DOMAIN xl.made :
                  (j < k /\ xl.made[j].owner = ColTotal) => xl.made[k].owner = ColTotal
    /\ xl.state = "returned" =>
           /\ {xl.made[k].owner : k \in DOMAIN xl.made} = Range(xl.cols)
           /\ \A k \in DOMAIN xl.made : xl.made[k].id \notin open_figs
           /\ \A c \in Range(xl.cols) :
                  {KeyHist, KeyBox, KeyTopBottom}
                      \subseteq {xl.made[k].key : k \in {m \in DOMAIN xl.made : xl.made[m].owner = c}}

\* C6's case: an export that returned after embedding the figures of several
\* subjects, a grade pie among them, and then the figures of Total.
C6_Witness ==
    /\ xl.state = "returned"
    /\ Len(xl.charts) >= 11
    /\ \E k \in DOMAIN xl.made : xl.made[k].key = KeyPie
    /\ xl.made[Len(xl.made)].owner = ColTotal
    /\ xl.made[1].owner # ColTotal

-----------------------------------------------------------------------------
(* Grade columns and the subject selection                                 *)

\* The grade column of table d that belongs to the subject of marks column c
OwnGradeCols(d, c) ==
    {g \in Range(d.cols) : \E k \in 1..Len(d.cols) : IsMarksColOf(c, k) /\ IsGradeColOf(g, k)}

\* The grades column g of table d holds, counted
CountedGrades(d, g) ==
    LET texts == {CellAt(d, i, g).s : i \in {r \in DOMAIN d.rows : CellAt(d, r, g).t = "str"}}
    IN  [x \in texts |-> Cardinality({i \in DOMAIN d.rows : CellAt(d, i, g).s = x
                                                           /\ CellAt(d, i, g).t = "str"})]

\* A subject report resolved its own subject's grade column and counted it
ResolvedOwnGrades(d, rep) ==
    \A g \in OwnGradeCols(d, rep.subject_col) :
        /\ rep.grade_col = g
        /\ ~rep.grade_counts.none
        /\ rep.grade_counts.counts = CountedGrades(d, g)

\* C7: for every subject marks column, under both naming conventions, if the
\* table has that subject's grade column then the dashboard's subject analysis
\* and the export's both resolve to it: grade_counts is not None and counts
\* that subject's grades.
C7_GradeColumnResolved ==
    /\ report.made => ResolvedOwnGrades(df, report)
    /\ \A k \in DOMAIN xl.reports : ResolvedOwnGrades(xl.df, xl.reports[k])

\* C8: on a non-empty parsed table without subject marks columns the dashboard
\* shows the warning, offers no subject selection and runs no analyze_subject;
\* whenever a selection is offered its options are the subject marks columns.
C8_WarnsWithoutSubjects ==
    pc \in {"total", "export", "export_subjects", "export_return", "end"} =>
        /\ (uploaded /\ Len(df.rows) > 0 /\ SubjectsOf(df) = {}) =>
               /\ "warning" \in Range(shown)
               /\ "selectbox" \notin Range(shown)
               /\ ~report.made
        /\ "selectbox" \in Range(shown) =>
               Range(mark_cols) \ {ColTotal} = Range(SubjectMarksCols(df))

\* C9: analyze_subject, analyze_total and save_full_report_excel_bytes are
\* invoked only after a file was uploaded and its parse produced at least one
\* row; a run without a file ends in the info message and a run whose parse
\* produced no row ends in the error message, with none of them invoked.
C9_AnalysesNeedRows ==
    /\ \A k \in DOMAIN calls :
           uploaded /\ Len(df.rows) > 0 /\ calls[k].rows > 0
    /\ (pc = "end" /\ ~uploaded) => (calls = <<>> /\ shown = <<"info">>)
    /\ (pc = "end" /\ uploaded /\ Len(df.rows) = 0) =>
           (calls = <<>> /\ shown = <<"error">>)
    /\ (pc = "end" /\ uploaded /\ Len(df.rows) > 0) =>
           {"analyze_subject", "analyze_total", "save_full_report_excel_bytes"}
               = {calls[k].fn : k \in DOMAIN calls}

\* C9's case: a file was uploaded, nothing could be parsed from its lines and
\* the run ended in the error message.
C9_Witness ==
    /\ pc = "end"
    /\ uploaded
    /\ lines # <<>>
    /\ Len(df.rows) = 0
    /\ shown = <<"error">>

=============================================================================
